---- MODULE Spec2Model ----
(***************************************************************************)
(* Bill reader: the pre-OCR image normalizer (preprocessImage) and the     *)
(* post-OCR field extractors (extractDate, extractTotal, extractMerchant)  *)
(* of the useOCR hook, src/src/components/FileUpload.tsx lines 102-458,    *)
(* the asynchronous processImage of the hook, and the components           *)
(* CameraCapture and OCRProcessor of src/unnamed/part_000.                 *)
(*                                                                         *)
(* A text is a sequence of one-character strings.  Every regular           *)
(* expression of the source is translated to an operator that returns the  *)
(* index just after the match (0 when there is no match), following the    *)
(* backtracking order of the JavaScript regex engine.                      *)
(***************************************************************************)
EXTENDS Integers, Sequences, FiniteSets, TLC

VARIABLES
    text,       \* ret.data.text: the text the OCR engine recognized
    pc,         \* position of the extraction step: "recognized" | "done"
    result,     \* the useOCR state `result` (BillData or NoResult)
    error,      \* the useOCR state `error`
    input,      \* the raster handed to preprocessImage
    output,     \* the raster preprocessImage resolved with (NoImage before)
    pass,       \* how many times the raster went through preprocessImage
    isProcessing,   \* the useOCR state `isProcessing`
    calls,          \* the invocations of the handlers of OCRProcessor: the
                    \* await each one is suspended at, the text recognized
                    \* while it is in use
    workers,        \* the Tesseract worker of each invocation
    activeTab,      \* the OCRProcessor state `activeTab`
    imagePreview,   \* the OCRProcessor state `imagePreview`
    mounted,        \* whether an instance of CameraCapture is mounted
    stream,         \* the CameraCapture state `stream`
    isCapturing,    \* the CameraCapture state `isCapturing`
    capturedImage,  \* the CameraCapture state `capturedImage`
    cameraError,    \* the CameraCapture state `cameraError`
    tracks,         \* the media streams obtained, each the readyState of its tracks
    requests        \* the getUserMedia requests not yet settled

hookVars == <<isProcessing, calls, workers, activeTab, imagePreview>>

cameraVars ==
    <<mounted, stream, isCapturing, capturedImage, cameraError, tracks, requests>>

vars == <<text, pc, result, error, input, output, pass, hookVars, cameraVars>>

----------------------------------------------------------------------------
(* Characters *)

\* the characters of a string, as a sequence
Chars(str) ==
    LET upTo[i \in 0..Len(str)] ==
            IF i = 0 THEN <<>> ELSE Append(upTo[i - 1], SubSeq(str, i, i))
    IN  upTo[Len(str)]

UpperSeq == Chars("ABCDEFGHIJKLMNOPQRSTUVWXYZ")
LowerSeq == Chars("abcdefghijklmnopqrstuvwxyz")
DigitSeq == Chars("0123456789")

UpperSet == {UpperSeq[i] : i \in 1..Len(UpperSeq)}
LowerSet == {LowerSeq[i] : i \in 1..Len(LowerSeq)}
DigitSet == {DigitSeq[i] : i \in 1..Len(DigitSeq)}

LowerMap == [c \in UpperSet |-> LowerSeq[CHOOSE i \in 1..Len(UpperSeq) : UpperSeq[i] = c]]
UpperMap == [c \in LowerSet |-> UpperSeq[CHOOSE i \in 1..Len(LowerSeq) : LowerSeq[i] = c]]
DigitMap == [c \in DigitSet |-> (CHOOSE i \in 1..Len(DigitSeq) : DigitSeq[i] = c) - 1]

ToLower(c) == IF c \in UpperSet THEN LowerMap[c] ELSE c
ToUpper(c) == IF c \in LowerSet THEN UpperMap[c] ELSE c

\* \d, [A-Za-z], \w and \s of the regex engine
IsDigit(c) == c \in DigitSet
IsAlpha(c) == c \in UpperSet \/ c \in LowerSet
IsWord(c) == IsDigit(c) \/ IsAlpha(c) \/ c = "_"
IsSpace(c) == c \in {" ", "\n", "\t", "\r"}

\* the elements of a sequence
Range(seq) == {seq[k] : k \in 1..Len(seq)}

\* the character at index i, "" outside the string
At(s, i) == IF i >= 1 /\ i <= Len(s) THEN s[i] ELSE ""

\* \b at index i: exactly one of s[i-1], s[i] is a word character
WordBoundary(s, i) == IsWord(At(s, i - 1)) # IsWord(At(s, i))

\* a value bound to a name: With(e, LAMBDA v : body) is body with v standing
\* for e, evaluated once
With(v, Body(_)) == Body(v)

\* index of the first character at or after i that is not in the class
\* (the end of a greedy run); Cls is a predicate on characters
RunEnd(s, i, Cls(_)) ==
    LET end[j \in i..(Len(s) + 1)] ==
            IF j <= Len(s) /\ Cls(s[j]) THEN end[j + 1] ELSE j
    IN  IF i > Len(s) THEN i ELSE end[i]

\* a literal at index i; ci = the i flag.  Index after it, or 0
MatchLit(s, i, lit, ci) ==
    IF i < 1 \/ i + Len(lit) - 1 > Len(s) THEN 0
    ELSE IF \A k \in 1..Len(lit) :
                IF ci THEN ToLower(s[i + k - 1]) = ToLower(lit[k])
                      ELSE s[i + k - 1] = lit[k]
         THEN i + Len(lit)
         ELSE 0

\* words separated by \s+ (e.g. total\s+amount), case-insensitive
RECURSIVE MatchWords(_, _, _)
MatchWords(s, i, words) ==
    With(MatchLit(s, i, Head(words), TRUE), LAMBDA e :
        IF e = 0 THEN 0
        ELSE IF Len(words) = 1 THEN e
        ELSE With(RunEnd(s, e, IsSpace), LAMBDA f :
                 IF f = e THEN 0 ELSE MatchWords(s, f, Tail(words))))

\* the first alternative of alts (each a sequence of words) that matches at
\* i: the index after it, or 0
RECURSIVE MatchAlt(_, _, _)
MatchAlt(s, i, alts) ==
    IF alts = <<>> THEN 0
    ELSE With(MatchWords(s, i, Head(alts)), LAMBDA e :
             IF e # 0 THEN e ELSE MatchAlt(s, i, Tail(alts)))

\* String.prototype.trim
RECURSIVE TrimLeft(_)
TrimLeft(s) == IF s # <<>> /\ IsSpace(Head(s)) THEN TrimLeft(Tail(s)) ELSE s

RECURSIVE TrimRight(_)
TrimRight(s) ==
    IF s # <<>> /\ IsSpace(s[Len(s)]) THEN TrimRight(SubSeq(s, 1, Len(s) - 1)) ELSE s

Trim(s) == TrimRight(TrimLeft(s))

\* text.replace(/\s+/g, ' '): every run of whitespace becomes one space
RECURSIVE CollapseSpaces(_, _)
CollapseSpaces(s, i) ==
    IF i > Len(s) THEN <<>>
    ELSE IF IsSpace(s[i]) THEN <<" ">> \o CollapseSpaces(s, RunEnd(s, i, IsSpace))
    ELSE <<s[i]>> \o CollapseSpaces(s, i + 1)

\* const cleanText = text.replace(/\s+/g, ' ').trim()
cleanText(t) == Trim(CollapseSpaces(t, 1))

\* the values of an optional field
Unset == <<"undefined">>
\* a TypeError thrown by a method call on undefined
Throw == <<"TypeError">>

\* the leftmost index >= i at which the matcher M succeeds, or 0
Search(s, i, M(_, _)) ==
    LET from[j \in i..(Len(s) + 1)] ==
            IF j > Len(s) THEN 0
            ELSE IF M(s, j) # 0 THEN j
            ELSE from[j + 1]
    IN  IF i > Len(s) THEN 0 ELSE from[i]

----------------------------------------------------------------------------
(* extractDate *)

IsDateSep(c) == c \in {"/", ".", "-"}

\* \b(\d{1,2}[/.-]\d{1,2}[/.-]\d{2,4})\b
NumericDateAt(s, i) ==
    LET a == RunEnd(s, i, IsDigit)
        b == RunEnd(s, a + 1, IsDigit)
        c == RunEnd(s, b + 1, IsDigit)
    IN  IF /\ WordBoundary(s, i)
           /\ a - i \in 1..2 /\ IsDateSep(At(s, a))
           /\ b - (a + 1) \in 1..2 /\ IsDateSep(At(s, b))
           /\ c - (b + 1) \in 2..4 /\ WordBoundary(s, c)
        THEN c ELSE 0

MonthNames == <<
    <<Chars("Jan"), Chars("uary")>>, <<Chars("Feb"), Chars("ruary")>>,
    <<Chars("Mar"), Chars("ch")>>, <<Chars("Apr"), Chars("il")>>,
    <<Chars("May"), <<>>>>, <<Chars("Jun"), Chars("e")>>,
    <<Chars("Jul"), Chars("y")>>, <<Chars("Aug"), Chars("ust")>>,
    <<Chars("Sep"), Chars("tember")>>, <<Chars("Oct"), Chars("ober")>>,
    <<Chars("Nov"), Chars("ember")>>, <<Chars("Dec"), Chars("ember")>>
>>

OrdinalSuffixes == <<Chars("st"), Chars("nd"), Chars("rd"), Chars("th")>>

\* \s+\d{1,2}(?:st|nd|rd|th)?,?\s+\d{4}\b starting at index e
MonthDateRest(s, e) ==
    LET d0 == RunEnd(s, e, IsSpace)
        d1 == RunEnd(s, d0, IsDigit)
        sfx == {MatchLit(s, d1, OrdinalSuffixes[k], TRUE) : k \in 1..Len(OrdinalSuffixes)} \ {0}
        \* the optional suffix and comma are tried first with, then without
        afterDay == (IF sfx = {} THEN {} ELSE {CHOOSE x \in sfx : TRUE}) \cup {d1}
        afterComma == {x + 1 : x \in {y \in afterDay : At(s, y) = ","}} \cup afterDay
        ok == {x \in afterComma :
                 LET y0 == RunEnd(s, x, IsSpace)
                     y1 == RunEnd(s, y0, IsDigit)
                 IN  y0 > x /\ y1 - y0 = 4 /\ WordBoundary(s, y1)}
    IN  IF d0 > e /\ d1 - d0 \in 1..2 /\ ok # {}
        THEN LET x == CHOOSE x \in ok : TRUE IN RunEnd(s, RunEnd(s, x, IsSpace), IsDigit)
        ELSE 0

\* one alternative Jan(?:uary)? followed by the rest of the pattern: the
\* optional tail of the name is tried first
MonthAlt(s, i, m) ==
    With(MatchLit(s, i, m[1], TRUE), LAMBDA e3 :
        IF e3 = 0 THEN 0
        ELSE With(MatchLit(s, e3, m[2], TRUE), LAMBDA eF :
             With(IF eF = 0 THEN 0 ELSE MonthDateRest(s, eF), LAMBDA rF :
                 IF rF # 0 THEN rF ELSE MonthDateRest(s, e3))))

RECURSIVE MonthAlts(_, _, _)
MonthAlts(s, i, k) ==
    IF k > Len(MonthNames) THEN 0
    ELSE With(MonthAlt(s, i, MonthNames[k]), LAMBDA e :
             IF e # 0 THEN e ELSE MonthAlts(s, i, k + 1))

\* \b(Jan(?:uary)?|...|Dec(?:ember)?)\s+\d{1,2}(?:st|nd|rd|th)?,?\s+\d{4}\b  /gi
MonthDateAt(s, i) ==
    IF WordBoundary(s, i) THEN MonthAlts(s, i, 1) ELSE 0

\* \b(\d{4}[/.-]\d{1,2}[/.-]\d{1,2})\b
IsoDateAt(s, i) ==
    LET a == RunEnd(s, i, IsDigit)
        b == RunEnd(s, a + 1, IsDigit)
        c == RunEnd(s, b + 1, IsDigit)
    IN  IF /\ WordBoundary(s, i)
           /\ a - i = 4 /\ IsDateSep(At(s, a))
           /\ b - (a + 1) \in 1..2 /\ IsDateSep(At(s, b))
           /\ c - (b + 1) \in 1..2 /\ WordBoundary(s, c)
        THEN c ELSE 0

DateLabels == <<
    <<Chars("Date")>>, <<Chars("DATE")>>, <<Chars("Invoice Date")>>,
    <<Chars("Transaction Date")>>, <<Chars("Purchase Date")>>
>>

\* [A-Za-z0-9\s,./-]
IsDateFragmentChar(c) == IsAlpha(c) \/ IsDigit(c) \/ IsSpace(c) \/ c \in {",", ".", "/", "-"}

IsColonOrSpace(c) == c = ":" \/ IsSpace(c)

\* (?:\n|$|\s{2,}) at index k
DateTerminator(s, k) ==
    \/ k > Len(s)
    \/ s[k] = "\n"
    \/ IsSpace(s[k]) /\ IsSpace(At(s, k + 1))

\* ([A-Za-z0-9\s,./-]+?)(?:\n|$|\s{2,}) with the group starting at p: the
\* index of the last character of the shortest group, or 0
RECURSIVE LazyFragmentEnd(_, _, _)
LazyFragmentEnd(s, p, q) ==
    IF q > Len(s) \/ ~IsDateFragmentChar(s[q]) THEN 0
    ELSE IF DateTerminator(s, q + 1) THEN q
    ELSE LazyFragmentEnd(s, p, q + 1)

\* [:\s]+ taking n characters from e, n from the longest run downwards:
\* the captured group <<first, last>>, or <<0, 0>>
RECURSIVE KeywordGroupFrom(_, _, _)
KeywordGroupFrom(s, e, n) ==
    IF n < 1 THEN <<0, 0>>
    ELSE With(LazyFragmentEnd(s, e + n, e + n), LAMBDA q :
             IF q # 0 THEN <<e + n, q>> ELSE KeywordGroupFrom(s, e, n - 1))

\* (?:Date|DATE|Invoice Date|Transaction Date|Purchase Date)[:\s]+(...+?)(?:\n|$|\s{2,})  /i
\* at index i: the captured group <<first, last>>, or <<0, 0>>
KeywordDateGroupAt(s, i) ==
    With(MatchAlt(s, i, DateLabels), LAMBDA e :
        IF e = 0 THEN <<0, 0>>
        ELSE KeywordGroupFrom(s, e, RunEnd(s, e, IsColonOrSpace) - e))

KeywordDateAt(s, i) == KeywordDateGroupAt(s, i)[2]

\* String.prototype.match with a global pattern: every match, left to right,
\* the search resuming where the previous match ended
AllMatches(s, i, M(_, _)) ==
    LET rest[from \in i..(Len(s) + 1)] ==
            LET j == Search(s, from, M) IN
            IF j = 0 THEN <<>>
            ELSE <<SubSeq(s, j, M(s, j) - 1)>> \o rest[M(s, j)]
    IN  rest[i]

\* String.prototype.match with the keyword pattern (no g flag): the whole
\* match and the captured group, or null (here <<>>)
KeywordDateMatch(s) ==
    With(Search(s, 1, KeywordDateAt), LAMBDA i :
        IF i = 0 THEN <<>>
        ELSE With(KeywordDateGroupAt(s, i), LAMBDA g :
                 <<SubSeq(s, i, g[2]), SubSeq(s, g[1], g[2])>>))

\* the ISO pattern tried before the numeric one
DateMatchesIsoFirst(s, k) ==
    CASE k = 1 -> AllMatches(s, 1, IsoDateAt)
      [] k = 2 -> AllMatches(s, 1, MonthDateAt)
      [] k = 3 -> AllMatches(s, 1, NumericDateAt)
      [] k = 4 -> KeywordDateMatch(s)

\* cleanText.match(datePatterns[k]), k counted from 1
DateMatches(s, k) ==
    CASE k = 1 -> AllMatches(s, 1, NumericDateAt)
      [] k = 2 -> AllMatches(s, 1, MonthDateAt)
      [] k = 3 -> AllMatches(s, 1, IsoDateAt)
      [] k = 4 -> KeywordDateMatch(s)

NumDatePatterns == 4

\* the keyword branch taken for every pattern
IsKeywordPatternAlways(k) == TRUE

\* pattern.toString().includes('Date|DATE')
IsKeywordPattern(k) == k = 4

\* /\d+/.test(dateMatch) && /[\/\-.]/.test(dateMatch)
HasDigit(s) == \E k \in 1..Len(s) : IsDigit(s[k])
HasDateSep(s) == \E k \in 1..Len(s) : IsDateSep(s[k])
LooksLikeDate(s) == HasDigit(s) /\ HasDateSep(s)

\* the loop of lines 323-337 from pattern k on; matches[1] of a match array
\* with one element is undefined and .trim() on it throws
RECURSIVE DateLoop(_, _)
DateLoop(s, k) ==
    IF k > NumDatePatterns THEN Unset
    ELSE With(DateMatches(s, k), LAMBDA matches :
             IF matches = <<>> THEN DateLoop(s, k + 1)
             ELSE IF IsKeywordPattern(k)
                  THEN IF Len(matches) < 2 THEN Throw
                       ELSE With(Trim(matches[2]), LAMBDA dateMatch :
                                IF LooksLikeDate(dateMatch) THEN dateMatch
                                ELSE DateLoop(s, k + 1))
                  ELSE matches[1])

\* the date returned with its separators rewritten to '/'
extractDateSlashed(t) ==
    LET d == DateLoop(cleanText(t), 1) IN
    IF d = Unset THEN d
    ELSE [k \in 1..Len(d) |-> IF d[k] \in {".", "-"} THEN "/" ELSE d[k]]

extractDate(t) == DateLoop(cleanText(t), 1)

----------------------------------------------------------------------------
(* extractTotal *)

NoGroup == <<0, 0, 0>>

IsFractionSep(c) == c \in {",", "."}

\* \d+(?:[,.]\d{1,2}) at index p, or \d+(?:[,.]\d{1,2})? when the fraction
\* is optional: the index after the number, or 0
NumberEnd(s, p, fractionRequired) ==
    LET a == RunEnd(s, p, IsDigit) IN
    IF a = p \/ p > Len(s) THEN 0
    ELSE IF IsFractionSep(At(s, a)) /\ IsDigit(At(s, a + 1))
         THEN IF IsDigit(At(s, a + 2)) THEN a + 3 ELSE a + 2
         ELSE IF fractionRequired THEN 0 ELSE a

\* \$?\s* at index e: the index after it
SkipCurrency(s, e) ==
    RunEnd(s, IF At(s, e) = "$" THEN e + 1 ELSE e, IsSpace)

\* the group (\d+...) starting at p, as <<first, last, index after the match>>
NumberGroup(s, p, fractionRequired) ==
    With(NumberEnd(s, p, fractionRequired), LAMBDA e :
        IF e = 0 THEN NoGroup ELSE <<p, e - 1, e>>)

TotalPhrases == <<
    <<Chars("total"), Chars("amount")>>, <<Chars("grand"), Chars("total")>>,
    <<Chars("amount"), Chars("due")>>, <<Chars("balance"), Chars("due")>>,
    <<Chars("total"), Chars("due")>>, <<Chars("total"), Chars("to"), Chars("pay")>>
>>

\* (?:total\s+amount|...|total\s+to\s+pay)[:\s]*\$?\s*(\d+(?:[,.]\d{1,2}))  /i
PhraseTotalAt(s, i) ==
    With(MatchAlt(s, i, TotalPhrases), LAMBDA e :
        IF e = 0 THEN NoGroup
        ELSE NumberGroup(s, SkipCurrency(s, RunEnd(s, e, IsColonOrSpace)), TRUE))

TotalKeywords == <<
    <<Chars("total")>>, <<Chars("amount")>>, <<Chars("due")>>,
    <<Chars("balance")>>, <<Chars("sum")>>, <<Chars("charge")>>
>>

\* the alternatives of (?:\s*:|\s*due|\s*payment)?, in the order the engine
\* tries them; the last one is the group left out
KeywordSuffixes == <<Chars(":"), Chars("due"), Chars("payment"), <<>>>>

\* \s*\$?\s*(\d+(?:[,.]\d{1,2})?) at index e
AmountAfter(s, e) == NumberGroup(s, SkipCurrency(s, RunEnd(s, e, IsSpace)), FALSE)

RECURSIVE KeywordTotalFrom(_, _, _)
KeywordTotalFrom(s, e, k) ==
    IF k > Len(KeywordSuffixes) THEN NoGroup
    ELSE With(IF KeywordSuffixes[k] = <<>> THEN e
              ELSE MatchLit(s, RunEnd(s, e, IsSpace), KeywordSuffixes[k], TRUE),
              LAMBDA f :
         With(IF f = 0 THEN NoGroup ELSE AmountAfter(s, f), LAMBDA g :
             IF g # NoGroup THEN g ELSE KeywordTotalFrom(s, e, k + 1)))

\* (?:total|amount|due|balance|sum|charge)(?:\s*:|\s*due|\s*payment)?\s*\$?\s*(\d+(?:[,.]\d{1,2})?)  /i
KeywordTotalAt(s, i) ==
    With(MatchAlt(s, i, TotalKeywords), LAMBDA e :
        IF e = 0 THEN NoGroup ELSE KeywordTotalFrom(s, e, 1))

TrailingKeywords == <<<<Chars("total")>>, <<Chars("amount")>>, <<Chars("due")>>>>

\* \$\s*(\d+(?:[,.]\d{1,2})?)(?:\s*(?:total|amount|due))  /i
TrailingKeywordTotalAt(s, i) ==
    IF At(s, i) # "$" THEN NoGroup
    ELSE With(NumberGroup(s, RunEnd(s, i + 1, IsSpace), FALSE), LAMBDA g :
         With(IF g = NoGroup THEN 0
              ELSE MatchAlt(s, RunEnd(s, g[3], IsSpace), TrailingKeywords),
              LAMBDA e :
             IF e = 0 THEN NoGroup ELSE <<g[1], g[2], e>>))

\* \$\s*(\d+(?:[,.]\d{1,2}))  /g
CurrencyAmountAt(s, i) ==
    IF At(s, i) # "$" THEN NoGroup
    ELSE NumberGroup(s, RunEnd(s, i + 1, IsSpace), TRUE)

PhraseTotalEnd(s, i) == PhraseTotalAt(s, i)[3]
KeywordTotalEnd(s, i) == KeywordTotalAt(s, i)[3]
TrailingKeywordTotalEnd(s, i) == TrailingKeywordTotalAt(s, i)[3]
CurrencyAmountEnd(s, i) == CurrencyAmountAt(s, i)[3]

\* cleanText.match(totalPatterns[k])[1], k counted from 1: the captured
\* number of the leftmost match, or Unset when the pattern does not match
LabeledMatch(s, k) ==
    With(CASE k = 1 -> Search(s, 1, PhraseTotalEnd)
           [] k = 2 -> Search(s, 1, KeywordTotalEnd)
           [] k = 3 -> Search(s, 1, TrailingKeywordTotalEnd),
         LAMBDA i :
        IF i = 0 THEN Unset
        ELSE With(CASE k = 1 -> PhraseTotalAt(s, i)
                    [] k = 2 -> KeywordTotalAt(s, i)
                    [] k = 3 -> TrailingKeywordTotalAt(s, i),
                  LAMBDA g : SubSeq(s, g[1], g[2])))

\* totalPatterns.length - 1
NumLabeledPatterns == 3

\* the comma left in place
KeepComma(v) == v

\* value.replace(',', '.'): the first comma only
ReplaceComma(v) ==
    LET commas == {k \in 1..Len(v) : v[k] = ","} IN
    IF commas = {} THEN v
    ELSE LET first == CHOOSE k \in commas : \A j \in commas : k <= j IN
         [v EXCEPT ![first] = "."]

\* the digits of s[a..b] as a natural number (0 for an empty range)
RECURSIVE DigitsValue(_, _, _)
DigitsValue(s, a, b) ==
    IF b < a THEN 0 ELSE DigitsValue(s, a, b - 1) * 10 + DigitMap[s[b]]

\* parseFloat of digits with an optional '.'-fraction of one or two digits,
\* in hundredths; a number whose fraction separator is still a comma parses
\* up to the comma.  An integer part of more than seven digits is far above
\* every value the code compares an amount with, and is kept as 10^9
ParseAmount(v) ==
    LET a == RunEnd(v, 1, IsDigit)
        b == RunEnd(v, a + 1, IsDigit)
        whole == DigitsValue(v, 1, a - 1) * 100
    IN  IF a - 1 > 7 THEN 1000000000
        ELSE IF At(v, a) # "." \/ b = a + 1 THEN whole
        ELSE IF b - (a + 1) = 1 THEN whole + DigitsValue(v, a + 1, b - 1) * 10
        ELSE whole + DigitsValue(v, a + 1, a + 2)

\* a.amount < 100000 (line 392), in hundredths
MaxReasonableAmount == 10000000

\* lines 363-372 from pattern k on: Unset when no labeled pattern yields a
\* positive value
RECURSIVE LabeledTotal(_, _)
LabeledTotal(s, k) ==
    IF k > NumLabeledPatterns THEN Unset
    ELSE With(LabeledMatch(s, k), LAMBDA m :
         With(ReplaceComma(m), LAMBDA total :
             IF m # Unset /\ ParseAmount(total) > 0 THEN total
             ELSE LabeledTotal(s, k + 1)))

\* Array.from(cleanText.matchAll(...)).map(...): value and amount per match
CurrencyAmounts(s) ==
    LET rest[from \in 1..(Len(s) + 1)] ==
            With(Search(s, from, CurrencyAmountEnd), LAMBDA j :
                IF j = 0 THEN <<>>
                ELSE With(CurrencyAmountAt(s, j), LAMBDA g :
                     With(ReplaceComma(SubSeq(s, g[1], g[2])), LAMBDA value :
                         <<[value |-> value, amount |-> ParseAmount(value),
                            index |-> j - 1]>>
                             \o rest[g[3]])))
    IN  rest[1]

\* Array.prototype.filter
Filter(seq, Keep(_)) ==
    LET keep[k \in 0..Len(seq)] ==
            IF k = 0 THEN <<>>
            ELSE IF Keep(seq[k]) THEN Append(keep[k - 1], seq[k]) ELSE keep[k - 1]
    IN  keep[Len(seq)]

\* Array.prototype.sort with the comparator (a, b) => Key(b) - Key(a):
\* descending, elements of equal key keep their order
SortDescending(seq, Key(_)) ==
    LET Insert(sq, x) ==
            LET smaller == {p \in 1..Len(sq) : Key(sq[p]) < Key(x)}
                pos == IF smaller = {} THEN Len(sq) + 1
                       ELSE CHOOSE p \in smaller : \A q \in smaller : p <= q
            IN  SubSeq(sq, 1, pos - 1) \o <<x>> \o SubSeq(sq, pos, Len(sq))
        sorted[k \in 0..Len(seq)] ==
            IF k = 0 THEN <<>> ELSE Insert(sorted[k - 1], seq[k])
    IN  sorted[Len(seq)]

AmountOf(item) == item.amount
IsPositive(item) == item.amount > 0
IsReasonable(item) == item.amount < MaxReasonableAmount

\* only the largest amount is tested against the limit
FallbackTotalLargestOnly(s) ==
    LET amounts == SortDescending(Filter(CurrencyAmounts(s), IsPositive), AmountOf)
    IN  IF amounts # <<>> /\ IsReasonable(amounts[1]) THEN amounts[1].value ELSE Unset

\* lines 374-398: the largest currency amount below 100000
FallbackTotal(s) ==
    With(SortDescending(Filter(CurrencyAmounts(s), IsPositive), AmountOf),
         LAMBDA amounts :
    With(Filter(amounts, IsReasonable), LAMBDA reasonableAmounts :
        IF amounts # <<>> /\ reasonableAmounts # <<>>
        THEN reasonableAmounts[1].value
        ELSE Unset))

\* the largest currency amount tried before the labeled patterns
extractTotalFallbackFirst(t) ==
    LET s == cleanText(t)
        fallback == FallbackTotal(s)
    IN  IF fallback # Unset THEN fallback ELSE LabeledTotal(s, 1)

extractTotal(t) ==
    With(cleanText(t), LAMBDA s :
    With(LabeledTotal(s, 1), LAMBDA labeled :
        IF labeled # Unset THEN labeled ELSE FallbackTotal(s)))

----------------------------------------------------------------------------
(* extractMerchant *)

\* text.split('\n')
SplitLines(t) ==
    LET rest[from \in 1..(Len(t) + 2)] ==
            LET nl == {k \in from..Len(t) : t[k] = "\n"} IN
            IF nl = {} THEN <<SubSeq(t, from, Len(t))>>
            ELSE LET k == CHOOSE k \in nl : \A j \in nl : k <= j IN
                 <<SubSeq(t, from, k - 1)>> \o rest[k + 1]
    IN  rest[1]

\* .map(line => line.trim())
TrimAll(ls) == [k \in 1..Len(ls) |-> Trim(ls[k])]

LongerThanTwo(line) == Len(line) > 2

\* lines 404-406
MerchantLines(t) == Filter(TrimAll(SplitLines(t)), LongerThanTwo)

\* [A-Za-z0-9\s&,.'\-]
IsNameChar(c) == IsAlpha(c) \/ IsDigit(c) \/ IsSpace(c) \/ c \in {"&", ",", ".", "'", "-"}

MerchantLabels == <<
    <<Chars("merchant")>>, <<Chars("vendor")>>, <<Chars("store")>>,
    <<Chars("business")>>, <<Chars("retailer")>>, <<Chars("seller")>>,
    <<Chars("company")>>
>>

MerchantPhrases == <<
    <<Chars("invoice from")>>, <<Chars("receipt from")>>, <<Chars("sold by")>>
>>

\* merchantPatterns
merchantPatterns == <<MerchantLabels, MerchantPhrases>>

\* [:\s]+([A-Za-z0-9\s&,.'\-]+) at index e, [:\s]+ taking n characters, n
\* from the longest run downwards: the group as <<first, last, index after>>
RECURSIVE NameGroupFrom(_, _, _)
NameGroupFrom(s, e, n) ==
    IF n < 1 THEN NoGroup
    ELSE IF IsNameChar(At(s, e + n))
         THEN With(RunEnd(s, e + n, IsNameChar), LAMBDA f : <<e + n, f - 1, f>>)
         ELSE NameGroupFrom(s, e, n - 1)

\* (?:label|...)[:\s]+([A-Za-z0-9\s&,.'\-]+)  /i  at index i
LabeledNameAt(s, i, labels) ==
    With(MatchAlt(s, i, labels), LAMBDA e :
        IF e = 0 THEN NoGroup
        ELSE NameGroupFrom(s, e, RunEnd(s, e, IsColonOrSpace) - e))

\* line.match(pattern)[1]: the group of the leftmost match, or Unset
LabeledName(line, labels) ==
    With(Search(line, 1, LAMBDA s, j : LabeledNameAt(s, j, labels)[3]), LAMBDA i :
        IF i = 0 THEN Unset
        ELSE With(LabeledNameAt(line, i, labels), LAMBDA g :
                 SubSeq(line, g[1], g[2])))

\* the inner loop of lines 415-420 from line k on
RECURSIVE LabeledInLines(_, _, _)
LabeledInLines(lines, labels, k) ==
    IF k > Len(lines) THEN Unset
    ELSE With(LabeledName(lines[k], labels), LAMBDA m :
             IF m # Unset /\ Len(m) > 2 THEN Trim(m)
             ELSE LabeledInLines(lines, labels, k + 1))

\* the loops exchanged: every pattern tried on a line before the next line
RECURSIVE LabeledMerchantLineMajor(_, _)
LabeledMerchantLineMajor(lines, k) ==
    IF k > Len(lines) THEN Unset
    ELSE LET m1 == LabeledInLines(<<lines[k]>>, merchantPatterns[1], 1)
             m2 == LabeledInLines(<<lines[k]>>, merchantPatterns[2], 1)
         IN  IF m1 # Unset THEN m1
             ELSE IF m2 # Unset THEN m2
             ELSE LabeledMerchantLineMajor(lines, k + 1)

\* the outer loop of lines 414-421 from pattern p on
RECURSIVE LabeledMerchant(_, _)
LabeledMerchant(lines, p) ==
    IF p > Len(merchantPatterns) THEN Unset
    ELSE With(LabeledInLines(lines, merchantPatterns[p], 1), LAMBDA m :
             IF m # Unset THEN m ELSE LabeledMerchant(lines, p + 1))

\* n digits at index i
DigitsAt(s, i, n) == \A k \in 0..(n - 1) : IsDigit(At(s, i + k))

\* line.match(/\d{1,2}[/.-]\d{1,2}[/.-]\d{2,4}/)
LooksLikeNumericDate(line) ==
    \E i \in 1..Len(line) : \E a \in 1..2 : \E b \in 1..2 :
        /\ DigitsAt(line, i, a) /\ IsDateSep(At(line, i + a))
        /\ DigitsAt(line, i + a + 1, b) /\ IsDateSep(At(line, i + a + 1 + b))
        /\ DigitsAt(line, i + a + b + 2, 2)

\* line.match(/\$\d+\.\d{2}/)
LooksLikeAmount(line) ==
    \E i \in 1..Len(line) :
        /\ line[i] = "$"
        /\ LET a == RunEnd(line, i + 1, IsDigit) IN
           a > i + 1 /\ At(line, a) = "." /\ DigitsAt(line, a + 1, 2)

StreetTypes == <<
    <<Chars("street")>>, <<Chars("st")>>, <<Chars("avenue")>>, <<Chars("ave")>>,
    <<Chars("road")>>, <<Chars("rd")>>, <<Chars("boulevard")>>, <<Chars("blvd")>>
>>

\* line.match(/^\d+\s+[a-zA-Z]+\s+(?:street|st|avenue|ave|road|rd|boulevard|blvd)/i)
LooksLikeAddress(line) ==
    LET a == RunEnd(line, 1, IsDigit)
        b == RunEnd(line, a, IsSpace)
        c == RunEnd(line, b, IsAlpha)
        d == RunEnd(line, c, IsSpace)
    IN  a > 1 /\ b > a /\ c > b /\ d > c /\ MatchAlt(line, d, StreetTypes) # 0

ContactPrefixes == <<
    <<Chars("tel")>>, <<Chars("phone")>>, <<Chars("fax")>>, <<Chars("www")>>,
    <<Chars("http")>>
>>

\* line.match(/^(?:tel|phone|fax|www|http)/i)
LooksLikeContact(line) == MatchAlt(line, 1, ContactPrefixes) # 0

\* Math.min(6, lines.length)
MaxHeaderLines == 6

\* the filter of lines 428-434
IsPotentialMerchant(line) ==
    /\ Len(line) > 3
    /\ ~LooksLikeNumericDate(line)
    /\ ~LooksLikeAmount(line)
    /\ ~LooksLikeAddress(line)
    /\ ~LooksLikeContact(line)

\* line === line.toUpperCase()
IsAllUpper(line) == \A k \in 1..Len(line) : ToUpper(line[k]) = line[k]

\* line.match(/^[A-Z][a-z]/)
IsTitleCase(line) == At(line, 1) \in UpperSet /\ At(line, 2) \in LowerSet

\* line.match(/\d{3,}/)
HasDigitRun(line) == \E i \in 1..Len(line) : DigitsAt(line, i, 3)

\* the score without the bonus of an all-uppercase line
ScoreWithoutCaps(line) ==
    (IF IsTitleCase(line) THEN 3 ELSE 0)
    + (IF Len(line) > 7 THEN 2 ELSE 0)
    + (IF Len(line) < 30 THEN 1 ELSE 0)
    - (IF HasDigitRun(line) THEN 3 ELSE 0)

\* the score of lines 440-444
Score(line) ==
    (IF IsAllUpper(line) THEN 4 ELSE 0)
    + (IF IsTitleCase(line) THEN 3 ELSE 0)
    + (IF Len(line) > 7 THEN 2 ELSE 0)
    + (IF Len(line) < 30 THEN 1 ELSE 0)
    - (IF HasDigitRun(line) THEN 3 ELSE 0)

\* the header scan over every line instead of the first six
HeaderMerchantAllLines(lines) ==
    LET prioritizedLines == SortDescending(Filter(lines, IsPotentialMerchant), Score)
    IN  IF prioritizedLines # <<>> THEN prioritizedLines[1] ELSE Unset

\* lines 423-448
HeaderMerchant(lines) ==
    With(SubSeq(lines, 1, IF Len(lines) < MaxHeaderLines THEN Len(lines)
                          ELSE MaxHeaderLines), LAMBDA headerLines :
    With(Filter(headerLines, IsPotentialMerchant), LAMBDA potentialMerchants :
    With(SortDescending(potentialMerchants, Score), LAMBDA prioritizedLines :
        IF prioritizedLines # <<>> THEN prioritizedLines[1] ELSE Unset)))

extractMerchant(t) ==
    With(MerchantLines(t), LAMBDA lines :
    With(LabeledMerchant(lines, 1), LAMBDA labeled :
        IF labeled # Unset THEN labeled ELSE HeaderMerchant(lines)))

----------------------------------------------------------------------------
(* processImage, lines 284-299: the record built from the recognized text *)

NoResult == [fullText |-> Unset, date |-> Unset, total |-> Unset, merchant |-> Unset]

\* billData with the whitespace-collapsed text stored as fullText
billDataCleaned(t) ==
    [fullText |-> cleanText(t), date |-> extractDate(t),
     total |-> extractTotal(t), merchant |-> extractMerchant(t)]

\* const billData: BillData = { fullText: text, date: ..., total: ..., merchant: ... }
billData(t) ==
    [fullText |-> t, date |-> extractDate(t),
     total |-> extractTotal(t), merchant |-> extractMerchant(t)]

Fields == {"date", "total", "merchant"}

\* an extractor threw while billData was built
Threw(b) == \E f \in Fields : b[f] = Throw

----------------------------------------------------------------------------
(* CameraCapture, src/unnamed/part_000 lines 102-175.  A media stream is    *)
(* the sequence of the readyStates of its tracks; the streams are numbered  *)
(* in the order getUserMedia resolved with them.                            *)

\* the streams one run may obtain, and the tracks of one stream
MaxStreams == 2
MaxTracks == 2

\* useState<MediaStream | null>(null), useState<string | null>(null)
NoStream == 0
NoPhoto == <<"null">>
Photo == <<"data:image/png">>

\* the state of line 105-108 at the first render, nothing requested
CameraIdle ==
    /\ mounted = FALSE
    /\ stream = NoStream /\ isCapturing = FALSE
    /\ capturedImage = NoPhoto /\ cameraError = Unset
    /\ tracks = <<>>
    /\ requests = [own |-> 0, orphan |-> 0]

\* the value of `stream` in the render whose closure the effect of lines
\* 170-175 keeps: the dependency list is empty, so the first render
InitialStream == NoStream

\* tracks.forEach(track => track.stop()) for the stream s a closure holds
StopTracks(tr, s) ==
    IF s = NoStream THEN tr
    ELSE [tr EXCEPT ![s] = [k \in 1..Len(tr[s]) |-> "ended"]]

\* a getUserMedia request can still be issued within MaxStreams
CanRequest == Len(tracks) + requests.own + requests.orphan < MaxStreams

\* a new instance is mounted: lines 103-108
MountCamera ==
    /\ mounted' = TRUE
    /\ stream' = NoStream /\ isCapturing' = FALSE
    /\ capturedImage' = NoPhoto /\ cameraError' = Unset
    /\ UNCHANGED <<tracks, requests>>

\* the instance is unmounted and the cleanup of lines 170-175 runs
\* stopCamera of the first render; the state updates of an unmounted
\* instance are dropped, its last state is kept until the next mount, and
\* its pending requests settle without it
UnmountCamera ==
    /\ mounted' = FALSE
    /\ tracks' = StopTracks(tracks, InitialStream)
    /\ requests' = [own |-> 0, orphan |-> requests.orphan + requests.own]
    /\ UNCHANGED <<stream, isCapturing, capturedImage, cameraError>>

----------------------------------------------------------------------------
(* useOCR.processImage, FileUpload.tsx lines 243-303, and OCRProcessor,     *)
(* src/unnamed/part_000 lines 265-390.  An invocation of a handler runs     *)
(* from one await to the next in one step, and invocations interleave at    *)
(* the awaits.  The state `progress` is read by no handler and is left out. *)

\* the invocations of handleFileSelected and handleImageCaptured in one run
MaxCalls == 2

Calls == 1..MaxCalls

\* the awaits of processImage, in order
Awaits == <<"preprocessImage", "createWorker", "loadLanguage", "initialize",
            "setParameters", "recognize", "terminate">>

IsAwait(p) == \E k \in 1..Len(Awaits) : Awaits[k] = p

AwaitAfter(p) == Awaits[(CHOOSE k \in 1..Len(Awaits) : Awaits[k] = p) + 1]

\* what a promise is rejected with: an Error, or a value that is not one
Failures == {
    [isError |-> TRUE, message |-> "Failed to load image for preprocessing"],
    [isError |-> FALSE, message |-> ""]}

\* err instanceof Error ? err.message : 'An unknown error occurred'
ErrorMessage(err) ==
    IF err.isError THEN <<err.message>> ELSE <<"An unknown error occurred">>

\* the texts recognize resolves with
OcrTexts == {Chars("ACME\n$5.00"), Chars("3/4/24")}

NoPreview == <<"null">>

IdleCall == [pc |-> "idle", text |-> <<>>, toast |-> "none"]

\* useState(false), useState(null), useState("upload"), nothing invoked
HookIdle ==
    /\ isProcessing = FALSE
    /\ calls = [c \in Calls |-> IdleCall]
    /\ workers = [c \in Calls |-> "none"]
    /\ activeTab = "upload"
    /\ imagePreview = NoPreview

\* {!result && (<Tabs ...>)}
TabsRendered == result = NoResult

\* the invocations are numbered in the order they are made
Free(c) == calls[c].pc = "idle" /\ \A d \in 1..(c - 1) : calls[d].pc # "idle"

\* processImage up to its first await, lines 245-251
EnterProcessImage(c) ==
    /\ isProcessing' = TRUE
    /\ error' = Unset
    /\ calls' = [calls EXCEPT ![c].pc = "preprocessImage"]

\* the catch block whose finally block resets the result as well
CatchFinallyClearing(h, err) ==
    [h EXCEPT !.error = ErrorMessage(err), !.isProcessing = FALSE,
              !.result = NoResult, !.settled = "fulfilled"]

\* lines 297-302 on the state h of the hook: the catch block, then the finally
\* block; the promise of processImage is fulfilled
CatchFinally(h, err) ==
    [h EXCEPT !.error = ErrorMessage(err), !.isProcessing = FALSE, !.settled = "fulfilled"]

\* part_000 lines 286-297: the toast after `await processImage(...)`
ToastAfter(settled) == IF settled = "fulfilled" THEN "complete" ELSE "failed"

\* handleFileSelected, part_000 lines 278-285: the FileUpload of the upload
\* tab hands over a file
handleFileSelected(c) ==
    /\ TabsRendered /\ activeTab = "upload" /\ Free(c)
    /\ imagePreview' = <<"blob:", c>>
    /\ EnterProcessImage(c)
    /\ UNCHANGED <<text, pc, result, input, output, pass, workers, activeTab, cameraVars>>

\* handleImageCaptured up to its first await, part_000 lines 301-307
ImageCaptured(c) ==
    /\ imagePreview' = Photo
    /\ calls' = [calls EXCEPT ![c].pc = "fetch"]
    /\ UNCHANGED <<text, pc, result, error, input, output, pass, isProcessing, workers,
                   activeTab>>

\* captureImage, part_000 lines 140-163, with stopCamera of the current
\* render and the handler onImageCaptured
captureImage(c) ==
    /\ mounted /\ isCapturing /\ capturedImage = NoPhoto /\ Free(c)
    /\ capturedImage' = Photo
    /\ tracks' = StopTracks(tracks, stream)
    /\ stream' = NoStream
    /\ isCapturing' = FALSE
    /\ ImageCaptured(c)
    /\ UNCHANGED <<mounted, cameraError, requests>>

\* handleImageCaptured invoked by the mounted CameraCapture, whose own
\* steps are left to the specification of the component
handleImageCaptured(c) ==
    /\ mounted /\ Free(c)
    /\ ImageCaptured(c)
    /\ UNCHANGED cameraVars

\* fetch(imageData) and response.blob() resolve: processImage is entered
FetchFulfilled(c) ==
    /\ calls[c].pc = "fetch"
    /\ EnterProcessImage(c)
    /\ UNCHANGED <<text, pc, result, input, output, pass, workers, activeTab,
                   imagePreview, cameraVars>>

\* fetch rejects: the catch block of handleImageCaptured, lines 316-323
FetchRejected(c) ==
    /\ calls[c].pc = "fetch"
    /\ calls' = [calls EXCEPT ![c].pc = "returned", ![c].toast = "failed"]
    /\ UNCHANGED <<text, pc, result, error, input, output, pass, isProcessing, workers,
                   activeTab, imagePreview, cameraVars>>

\* one of the awaits of lines 251-268 is fulfilled; createWorker resolves
\* with a new worker
AwaitFulfilled(c) ==
    /\ IsAwait(calls[c].pc) /\ calls[c].pc \notin {"recognize", "terminate"}
    /\ calls' = [calls EXCEPT ![c].pc = AwaitAfter(calls[c].pc)]
    /\ workers' = IF calls[c].pc = "createWorker"
                  THEN [workers EXCEPT ![c] = "running"] ELSE workers
    /\ UNCHANGED <<text, pc, result, error, input, output, pass, isProcessing,
                   activeTab, imagePreview, cameraVars>>

\* worker.recognize resolves with a text, line 280
RecognizeFulfilled(c, t) ==
    /\ calls[c].pc = "recognize"
    /\ calls' = [calls EXCEPT ![c].pc = "terminate", ![c].text = t]
    /\ UNCHANGED <<text, pc, result, error, input, output, pass, isProcessing, workers,
                   activeTab, imagePreview, cameraVars>>

\* worker.terminate resolves, lines 282-302: the extraction, setResult (or
\* the catch block when an extractor throws), the finally block; the tabs
\* and the CameraCapture in them are unmounted once result is set
TerminateFulfilled(c) ==
    /\ calls[c].pc = "terminate"
    /\ workers' = [workers EXCEPT ![c] = "terminated"]
    /\ With(billData(calls[c].text), LAMBDA b :
           IF Threw(b)
           THEN result' = result /\ error' = Throw
           ELSE result' = b /\ error' = error)
    /\ isProcessing' = FALSE
    /\ calls' = [calls EXCEPT ![c].pc = "returned", ![c].text = <<>>,
                               ![c].toast = ToastAfter("fulfilled")]
    /\ IF mounted /\ result' # NoResult THEN UnmountCamera ELSE UNCHANGED cameraVars
    /\ UNCHANGED <<text, pc, input, output, pass, activeTab, imagePreview>>

\* one of the awaits of lines 251-280 is rejected with err: lines 297-302
AwaitRejected(c, err) ==
    /\ IsAwait(calls[c].pc) /\ calls[c].pc # "terminate"
    /\ With(CatchFinally([isProcessing |-> isProcessing, result |-> result,
                          error |-> error, settled |-> "pending"], err), LAMBDA h :
           /\ isProcessing' = h.isProcessing
           /\ result' = h.result
           /\ error' = h.error
           /\ calls' = [calls EXCEPT ![c].pc = "returned", ![c].toast = ToastAfter(h.settled)])
    /\ UNCHANGED <<text, pc, input, output, pass, workers, activeTab, imagePreview,
                   cameraVars>>

\* 'Process another bill' with the result reset as well
ProcessAnotherBillResetting ==
    /\ result # NoResult /\ ~isProcessing
    /\ activeTab' = "upload"
    /\ imagePreview' = NoPreview
    /\ result' = NoResult
    /\ UNCHANGED <<text, pc, error, input, output, pass, isProcessing, calls, workers,
                   cameraVars>>

\* the button 'Process another bill', part_000 lines 365-387, rendered when
\* result && !isProcessing
ProcessAnotherBill ==
    /\ result # NoResult /\ ~isProcessing
    /\ activeTab' = "upload"
    /\ imagePreview' = NoPreview
    /\ UNCHANGED <<text, pc, result, error, input, output, pass, isProcessing, calls,
                   workers, cameraVars>>

\* onValueChange={setActiveTab}, part_000 lines 329-343: the content of the
\* tab left is unmounted, the content of the tab entered is mounted
setActiveTab(tab) ==
    /\ TabsRendered /\ tab # activeTab
    /\ activeTab' = tab
    /\ IF tab = "camera" THEN MountCamera ELSE UnmountCamera
    /\ UNCHANGED <<text, pc, result, error, input, output, pass, isProcessing, calls,
                   workers, imagePreview>>

\* startCamera up to its await, part_000 lines 110-116: the button is
\* rendered when !isCapturing && !capturedImage
startCamera ==
    /\ mounted /\ ~isCapturing /\ capturedImage = NoPhoto /\ CanRequest
    /\ cameraError' = Unset
    /\ requests' = [requests EXCEPT !.own = @ + 1]
    /\ UNCHANGED <<text, pc, result, error, input, output, pass, hookVars,
                   mounted, stream, isCapturing, capturedImage, tracks>>

\* retakePhoto, part_000 lines 165-168
retakePhoto ==
    /\ mounted /\ capturedImage # NoPhoto /\ CanRequest
    /\ capturedImage' = NoPhoto
    /\ cameraError' = Unset
    /\ requests' = [requests EXCEPT !.own = @ + 1]
    /\ UNCHANGED <<text, pc, result, error, input, output, pass, hookVars,
                   mounted, stream, isCapturing, tracks>>

\* getUserMedia resolves with a stream of n live tracks for the mounted
\* instance, part_000 lines 118-124
GetUserMediaFulfilled(n) ==
    /\ requests.own > 0
    /\ tracks' = Append(tracks, [k \in 1..n |-> "live"])
    /\ stream' = Len(tracks) + 1
    /\ isCapturing' = TRUE
    /\ requests' = [requests EXCEPT !.own = @ - 1]
    /\ UNCHANGED <<text, pc, result, error, input, output, pass, hookVars,
                   mounted, capturedImage, cameraError>>

\* getUserMedia rejects for the mounted instance, part_000 lines 125-128
GetUserMediaRejected ==
    /\ requests.own > 0
    /\ cameraError' = <<"Could not access the camera. Please ensure you have granted camera permissions.">>
    /\ requests' = [requests EXCEPT !.own = @ - 1]
    /\ UNCHANGED <<text, pc, result, error, input, output, pass, hookVars,
                   mounted, stream, isCapturing, capturedImage, tracks>>

\* getUserMedia resolves for an instance that was unmounted: its state
\* updates are dropped and videoRef.current is null
GetUserMediaFulfilledLate(n) ==
    /\ requests.orphan > 0
    /\ tracks' = Append(tracks, [k \in 1..n |-> "live"])
    /\ requests' = [requests EXCEPT !.orphan = @ - 1]
    /\ UNCHANGED <<text, pc, result, error, input, output, pass, hookVars,
                   mounted, stream, isCapturing, capturedImage, cameraError>>

\* getUserMedia rejects for an instance that was unmounted
GetUserMediaRejectedLate ==
    /\ requests.orphan > 0
    /\ requests' = [requests EXCEPT !.orphan = @ - 1]
    /\ UNCHANGED <<text, pc, result, error, input, output, pass, hookVars,
                   mounted, stream, isCapturing, capturedImage, cameraError, tracks>>

----------------------------------------------------------------------------
(* The recognized texts: up to MaxParts fragments, concatenated *)

MaxParts == 3

RECURSIVE Flatten(_)
Flatten(parts) == IF parts = <<>> THEN <<>> ELSE Head(parts) \o Flatten(Tail(parts))

Compose(frags) ==
    UNION {{Flatten(q) : q \in [1..n -> frags]} : n \in 0..MaxParts}

DateFragments == {
    Chars("03/14/2024 "), Chars("2024-03-14\n"), Chars("Jan  5th,\n2023 "),
    Chars("Invoice Date: "), Chars("Date: 13.45 "), Chars("at noon ")}

TotalFragments == {
    Chars("Grand Total: $11.00 "), Chars("Subtotal $10.00 "), Chars("$250000.00 "),
    Chars("$42.00 "), Chars("$50 "), Chars("Total: 0,00 "), Chars("$12,50 due ")}

MerchantFragments == {
    Chars("Sold by: Riverside Cafe\n"), Chars("Store: Walmart\n"),
    Chars("ACME HARDWARE\n"), Chars("123 Main St\n"), Chars("Joe's Diner\n"),
    Chars("Vendor: ab "), Chars("03/14/2024 ")}

MixedFragments == {
    Chars("ACME HARDWARE\n"), Chars("Date: 03/14/2024\n"), Chars("Total: $5.00\n"),
    Chars("Sold by: Riverside Cafe\n"), Chars("ok ")}

DateTexts == Compose(DateFragments)
TotalTexts == Compose(TotalFragments)
MerchantTexts == Compose(MerchantFragments)
MixedTexts == Compose(MixedFragments)

\* header lines without a merchant label: names of several scores, lines
\* the header scan discards, a line of three characters
HeaderFragments == {
    Chars("ACME\n"), Chars("ACME HARDWARE\n"), Chars("Joe's Diner\n"),
    Chars("ORDER 12345\n"), Chars("KFC\n"),
    Chars("1 Elm St\n3/4/24\n$4.50\nwww.a.b\n"),
    Chars("item one\nitem two\nitem six\n")}

HeaderTexts == Compose(HeaderFragments)

\* labeled dates that end their line or stand before a run of spaces, and
\* the lines that follow them
KeywordFragments == {
    Chars("Date: 1.5\n"), Chars("Invoice Date 2-3  "), Chars("DATE: soon\n"),
    Chars("paid at noon\n"), Chars("Total: $5\n"), Chars("1/2 off ")}

KeywordTexts == Compose(KeywordFragments)

\* amounts after a keyword that stands alone and after one inside a longer
\* word, without any of the phrases of the first pattern
SubtotalFragments == {
    Chars("Subtotal $10.00 "), Chars("Total $11.00 "), Chars("Tax $1.00 "),
    Chars("Overdue 2,50 "), Chars("Summary 3 "), Chars("TOTAL: 0 ")}

SubtotalTexts == Compose(SubtotalFragments)

NoImage == <<>>

InitFrom(texts) ==
    /\ text \in texts
    /\ pc = "recognized"
    /\ result = NoResult
    /\ error = Unset
    /\ input = NoImage /\ output = NoImage /\ pass = 0
    /\ HookIdle /\ CameraIdle

\* lines 284-299: the extraction and setResult, or the catch block
BuildBillData ==
    /\ pc = "recognized"
    /\ pc' = "done"
    /\ With(billData(text), LAMBDA b :
           IF Threw(b)
           THEN result' = result /\ error' = Throw
           ELSE result' = b /\ error' = error)
    /\ UNCHANGED <<text, input, output, pass, hookVars, cameraVars>>

NextText == BuildBillData

SpecText == InitFrom(MixedTexts) /\ [][NextText]_vars
SpecDate == InitFrom(DateTexts) /\ [][NextText]_vars
SpecTotal == InitFrom(TotalTexts) /\ [][NextText]_vars
SpecMerchant == InitFrom(MerchantTexts) /\ [][NextText]_vars
SpecHeader == InitFrom(HeaderTexts) /\ [][NextText]_vars
SpecKeyword == InitFrom(KeywordTexts) /\ [][NextText]_vars
SpecSubtotal == InitFrom(SubtotalTexts) /\ [][NextText]_vars

\* the application after its first render: nothing recognized, no raster
InitApp ==
    /\ text = <<>> /\ pc = "idle" /\ result = NoResult /\ error = Unset
    /\ input = NoImage /\ output = NoImage /\ pass = 0
    /\ HookIdle /\ CameraIdle

\* useOCR and OCRProcessor: the invocations of the handlers and the tabs
NextOCR ==
    \/ \E c \in Calls : handleFileSelected(c)
    \/ \E c \in Calls : handleImageCaptured(c)
    \/ \E c \in Calls : FetchFulfilled(c)
    \/ \E c \in Calls : FetchRejected(c)
    \/ \E c \in Calls : AwaitFulfilled(c)
    \/ \E c \in Calls : \E t \in OcrTexts : RecognizeFulfilled(c, t)
    \/ \E c \in Calls : TerminateFulfilled(c)
    \/ \E c \in Calls : \E err \in Failures : AwaitRejected(c, err)
    \/ ProcessAnotherBill
    \/ \E tab \in {"upload", "camera"} : setActiveTab(tab)

SpecOCR == InitApp /\ [][NextOCR]_vars

\* CameraCapture in the tabs of OCRProcessor: the camera and the tabs
NextCamera ==
    \/ \E tab \in {"upload", "camera"} : setActiveTab(tab)
    \/ startCamera
    \/ retakePhoto
    \/ \E c \in Calls : captureImage(c)
    \/ \E n \in 1..MaxTracks : GetUserMediaFulfilled(n)
    \/ GetUserMediaRejected
    \/ \E n \in 1..MaxTracks : GetUserMediaFulfilledLate(n)
    \/ GetUserMediaRejectedLate

SpecCamera == InitApp /\ [][NextCamera]_vars

----------------------------------------------------------------------------
(* preprocessImage, lines 117-212.  A raster is [width, height, data]; data  *)
(* holds one <<R, G, B>> per pixel, row by row (the alpha channel of the     *)
(* ImageData is neither read nor written by the pipeline).  The variance of  *)
(* Otsu's method is computed as the code computes it, in IEEE 754 double     *)
(* arithmetic: every division, subtraction and product of lines 164-167 is   *)
(* rounded to 53 binary digits, a tie to the even mantissa.                  *)

\* the values of an 8-bit channel
MaxChannel == 255

\* Uint8ClampedArray store of num / den: the nearest integer, a tie to the even one
RoundToUint8(num, den) ==
    LET q == num \div den
        r == num % den
        n == IF 2 * r > den \/ (2 * r = den /\ q % 2 = 1) THEN q + 1 ELSE q
    IN  IF n > MaxChannel THEN MaxChannel ELSE n

\* 0.299 * data[i] + 0.587 * data[i + 1] + 0.114 * data[i + 2]
Grayscale(p) == RoundToUint8(299 * p[1] + 587 * p[2] + 114 * p[3], 1000)

\* lines 130-135
ToGrayscale(data) ==
    [k \in 1..Len(data) |-> LET g == Grayscale(data[k]) IN <<g, g, g>>]

\* lines 138-141: histogram[Math.floor(data[i])]++
Histogram(data) ==
    [v \in 0..MaxChannel |-> Cardinality({k \in 1..Len(data) : data[k][1] = v})]

\* natural numbers beyond 2^31, as little-endian digits in base 10000
RECURSIVE BigOf(_)
BigOf(n) == IF n < 10000 THEN <<n>> ELSE <<n % 10000>> \o BigOf(n \div 10000)

RECURSIVE BigCarry(_, _)
BigCarry(digits, carry) ==
    IF digits = <<>> THEN (IF carry = 0 THEN <<>> ELSE BigOf(carry))
    ELSE LET x == Head(digits) + carry IN
         <<x % 10000>> \o BigCarry(Tail(digits), x \div 10000)

RECURSIVE BigSum(_, _, _, _)
\* the sum of a[i] * b[k + 1 - i] over i from lo
BigSum(a, b, k, i) ==
    IF i > Len(a) \/ i > k THEN 0
    ELSE (IF k + 1 - i <= Len(b) THEN a[i] * b[k + 1 - i] ELSE 0) + BigSum(a, b, k, i + 1)

BigMul(a, b) ==
    BigCarry([k \in 1..(Len(a) + Len(b) - 1) |-> BigSum(a, b, k, 1)], 0)

RECURSIVE BigStrip(_)
BigStrip(a) ==
    IF Len(a) > 1 /\ a[Len(a)] = 0 THEN BigStrip(SubSeq(a, 1, Len(a) - 1)) ELSE a

RECURSIVE BigGreaterFrom(_, _, _)
BigGreaterFrom(a, b, k) ==
    IF k = 0 THEN FALSE
    ELSE IF a[k] # b[k] THEN a[k] > b[k]
    ELSE BigGreaterFrom(a, b, k - 1)

BigGreater(a, b) ==
    LET x == BigStrip(a)
        y == BigStrip(b)
    IN  IF Len(x) # Len(y) THEN Len(x) > Len(y) ELSE BigGreaterFrom(x, y, Len(x))

Abs(n) == IF n < 0 THEN -n ELSE n

\* a + b
BigAdd(a, b) ==
    BigCarry([k \in 1..(IF Len(a) > Len(b) THEN Len(a) ELSE Len(b)) |->
                (IF k <= Len(a) THEN a[k] ELSE 0) + (IF k <= Len(b) THEN b[k] ELSE 0)], 0)

\* a - b for a >= b: the borrow into digit k is 1 when the digits below it
\* of a are less than those of b
BigSub(a, b) ==
    LET digit(x, k) == IF k <= Len(x) THEN x[k] ELSE 0
        borrow[k \in 1..(Len(a) + 1)] ==
            IF k = 1 THEN 0
            ELSE IF digit(a, k - 1) - digit(b, k - 1) - borrow[k - 1] < 0 THEN 1 ELSE 0
    IN  BigStrip([k \in 1..Len(a) |->
                    (digit(a, k) - digit(b, k) - borrow[k] + 10000) % 10000])

\* a divided by a divisor d of at most 8192: the quotient and the remainder
BigDivSmall(a, d) ==
    LET rem[k \in 1..(Len(a) + 1)] ==
            IF k = Len(a) + 1 THEN 0 ELSE (rem[k + 1] * 10000 + a[k]) % d
    IN  [q |-> BigStrip([k \in 1..Len(a) |-> (rem[k + 1] * 10000 + a[k]) \div d]),
         r |-> rem[1]]

\* 2^s for s at most 13
RECURSIVE Pow2(_)
Pow2(s) == IF s = 0 THEN 1 ELSE 2 * Pow2(s - 1)

\* a * 2^s
RECURSIVE BigShiftLeft(_, _)
BigShiftLeft(a, s) ==
    IF s = 0 THEN a
    ELSE IF s > 13 THEN BigShiftLeft(BigMul(a, <<8192>>), s - 13)
    ELSE BigStrip(BigMul(a, <<Pow2(s)>>))

\* a divided by 2^s: the quotient, and whether a bit was shifted out
RECURSIVE BigShiftRight(_, _, _)
BigShiftRight(a, s, sticky) ==
    IF s = 0 THEN [q |-> a, sticky |-> sticky]
    ELSE With(BigDivSmall(a, Pow2(IF s > 13 THEN 13 ELSE s)), LAMBDA d :
             BigShiftRight(d.q, IF s > 13 THEN s - 13 ELSE 0, sticky \/ d.r # 0))

\* the number of binary digits of a
RECURSIVE BitLength(_)
BitLength(a) ==
    IF Len(a) = 1 /\ a[1] = 0 THEN 0
    ELSE IF Len(a) > 1 \/ a[1] >= 8192 THEN 13 + BitLength(BigDivSmall(a, 8192).q)
    ELSE 1 + BitLength(<<a[1] \div 2>>)

\* a double is m * 2^e with m of at most 53 binary digits.  The double
\* nearest to a * 2^e (a not exact when sticky), a tie to the even one
RoundToDouble(a, e, sticky) ==
    With(BitLength(a), LAMBDA n :
        IF n <= 53 THEN [m |-> a, e |-> e]
        ELSE With(BigShiftRight(a, n - 54, sticky), LAMBDA sh :
             With(BigDivSmall(sh.q, 2), LAMBDA half :
                 [m |-> IF half.r = 1 /\ (sh.sticky \/ half.q[1] % 2 = 1)
                        THEN BigStrip(BigAdd(half.q, <<1>>)) ELSE half.q,
                  e |-> e + (n - 53)])))

DoubleOf(n) == [m |-> BigOf(n), e |-> 0]

\* a / b in double arithmetic, for integers a >= 0 and 0 < b <= 8192
DoubleDiv(a, b) ==
    With(BigDivSmall(BigShiftLeft(BigOf(a), 80), b), LAMBDA d :
        RoundToDouble(d.q, -80, d.r # 0))

\* x * y in double arithmetic
DoubleMul(x, y) == RoundToDouble(BigStrip(BigMul(x.m, y.m)), x.e + y.e, FALSE)

\* the mantissa of x at the exponent e <= x.e
Aligned(x, e) == BigShiftLeft(x.m, x.e - e)

\* x - y in double arithmetic, for x >= y
DoubleSub(x, y) ==
    With(IF x.e < y.e THEN x.e ELSE y.e, LAMBDA e :
        RoundToDouble(BigSub(Aligned(x, e), Aligned(y, e)), e, FALSE))

\* x > y
DoubleGreater(x, y) ==
    With(IF x.e < y.e THEN x.e ELSE y.e, LAMBDA e :
        BigGreater(Aligned(x, e), Aligned(y, e)))

\* wB * wF * (mB - mF) * (mB - mF) with mB = sumB / wB and mF = (sum - sumB) / wF,
\* every operation rounded; mB - mF is negative and enters by its magnitude
Variance(wB, wF, sumB, sum) ==
    With(DoubleSub(DoubleDiv(sum - sumB, wF), DoubleDiv(sumB, wB)), LAMBDA d :
        DoubleMul(DoubleMul(DoubleOf(wB * wF), d), d))

\* variance > maxVariance
VarianceGreater(v, m) == DoubleGreater(v, m)

\* let sum = 0; for (...) sum += i * histogram[i], over the bins lo..hi
RECURSIVE WeightedSum(_, _, _)
WeightedSum(histogram, lo, hi) ==
    IF lo = hi THEN lo * histogram[lo]
    ELSE LET mid == (lo + hi) \div 2 IN
         WeightedSum(histogram, lo, mid) + WeightedSum(histogram, mid + 1, hi)

\* the variables of the loop of lines 156-172; done after the break
OtsuStart ==
    [wB |-> 0, sumB |-> 0, maxVariance |-> DoubleOf(0), threshold |-> 0,
     done |-> FALSE]

\* one iteration of the loop, for the threshold t
OtsuStep(st, histogram, total, sum, t) ==
    LET wB == st.wB + histogram[t]
        wF == total - wB
        sumB == st.sumB + t * histogram[t]
        variance == Variance(wB, wF, sumB, sum)
    IN  IF wB = 0 THEN [st EXCEPT !.wB = wB]
        ELSE IF wF = 0 THEN [st EXCEPT !.wB = wB, !.done = TRUE]
        \* an empty bin leaves wB, wF and sumB, hence the variance, as the
        \* previous iteration computed them, and maxVariance is at least that
        ELSE IF histogram[t] = 0 THEN st
        ELSE IF VarianceGreater(variance, st.maxVariance)
             THEN [st EXCEPT !.wB = wB, !.sumB = sumB,
                             !.maxVariance = variance, !.threshold = t]
             ELSE [st EXCEPT !.wB = wB, !.sumB = sumB]

\* the first threshold after t with a non-empty bin, 256 when there is none
NextBin(histogram, t) ==
    IF \A v \in (t + 1)..MaxChannel : histogram[v] = 0 THEN MaxChannel + 1
    ELSE CHOOSE v \in (t + 1)..MaxChannel :
            histogram[v] > 0 /\ \A u \in (t + 1)..(v - 1) : histogram[u] = 0

\* the iterations from t on, in order, until t reaches 256 or the break; the
\* iterations of the empty bins between two non-empty ones leave the state
\* as it is (OtsuStep) and are passed over
RECURSIVE OtsuLoop(_, _, _, _, _)
OtsuLoop(st, histogram, total, sum, t) ==
    IF t > MaxChannel \/ st.done THEN st
    ELSE OtsuLoop(OtsuStep(st, histogram, total, sum, t), histogram, total, sum,
                  NextBin(histogram, t))

\* lines 144-172
OtsuThreshold(histogram, total) ==
    OtsuLoop(OtsuStart, histogram, total, WeightedSum(histogram, 0, MaxChannel),
             0).threshold

\* the comparison with the threshold made inclusive
BinarizeInclusive(v, threshold) == IF v >= threshold THEN MaxChannel ELSE 0

\* const value = data[i] > threshold ? 255 : 0
Binarize(v, threshold) == IF v > threshold THEN MaxChannel ELSE 0

\* the threshold written to the red channel only
ApplyThresholdRedOnly(data, threshold) ==
    [k \in 1..Len(data) |->
        <<Binarize(data[k][1], threshold), data[k][2], data[k][3]>>]

\* lines 175-182
ApplyThreshold(data, threshold) ==
    [k \in 1..Len(data) |->
        LET value == Binarize(data[k][1], threshold) IN <<value, value, value>>]

\* canvas.width > 10 && canvas.height > 10
MedianMinSide == 10

\* neighbors.sort((a, b) => a - b)[4]: the fifth smallest of nine values
Median(neighbors) ==
    CHOOSE m \in Range(neighbors) :
        /\ Cardinality({k \in 1..Len(neighbors) : neighbors[k] < m}) <= 4
        /\ Cardinality({k \in 1..Len(neighbors) : neighbors[k] <= m}) >= 5

\* the pass without the test of line 193: every interior pixel is replaced
MedianFilterEveryPixel(width, height, data) ==
    IF ~(width > MedianMinSide /\ height > MedianMinSide) THEN data
    ELSE [k \in 1..Len(data) |->
            LET x == (k - 1) % width
                y == (k - 1) \div width
            IN  IF x < 1 \/ x >= width - 1 \/ y < 1 \/ y >= height - 1 THEN data[k]
                ELSE LET median ==
                             Median([n \in 1..9 |->
                                data[(y + ((n - 1) \div 3) - 1) * width
                                     + (x + ((n - 1) % 3) - 1) + 1][1]])
                     IN  <<median, median, median>>]

\* lines 185-212: tempData is the data before the pass
MedianFilter(width, height, data) ==
    IF ~(width > MedianMinSide /\ height > MedianMinSide) THEN data
    ELSE LET tempData == data IN
         [k \in 1..Len(data) |->
            LET x == (k - 1) % width
                y == (k - 1) \div width
            IN  IF x < 1 \/ x >= width - 1 \/ y < 1 \/ y >= height - 1 THEN data[k]
                ELSE IF data[k][1] = 0 \/ data[k][1] = MaxChannel THEN data[k]
                ELSE LET neighbors ==
                             [n \in 1..9 |->
                                tempData[(y + ((n - 1) \div 3) - 1) * width
                                         + (x + ((n - 1) % 3) - 1) + 1][1]]
                         median == Median(neighbors)
                     IN  <<median, median, median>>]

\* the pipeline of lines 117-212 on one raster
preprocessImage(img) ==
    LET gray == ToGrayscale(img.data)
        threshold == OtsuThreshold(Histogram(gray), img.width * img.height)
        binary == ApplyThreshold(gray, threshold)
    IN  [width |-> img.width, height |-> img.height,
         data |-> MedianFilter(img.width, img.height, binary)]

----------------------------------------------------------------------------
(* The rasters: sides up to MaxSmall, and from MedianMinSide to MaxLarge *)

MaxSmall == 2
MaxLarge == 11

Sides == (1..MaxSmall) \cup (MedianMinSide..MaxLarge)

\* black, white, mid gray, red, blue, dark ink
Palette == <<
    <<0, 0, 0>>, <<255, 255, 255>>, <<128, 128, 128>>,
    <<255, 0, 0>>, <<0, 0, 255>>, <<10, 20, 30>>
>>

\* the raster whose pixel (x, y) has the colour (a * x + b * y + c) of the palette
Pattern(w, h, a, b, c) ==
    [width |-> w, height |-> h,
     data |-> [k \in 1..(w * h) |->
                 Palette[((a * ((k - 1) % w) + b * ((k - 1) \div w) + c) % Len(Palette)) + 1]]]

\* the gray raster whose pixels repeat the levels 0, v, v, 2v
Ramp(w, h, v) ==
    [width |-> w, height |-> h,
     data |-> [k \in 1..(w * h) |->
                 [c \in 1..3 |-> <<0, v, v, 2 * v>>[((k - 1) % 4) + 1]]]]

\* the steps of the ramps: adjacent levels, and levels far apart
RampSteps == {1, 11}

Images ==
    {Pattern(w, h, a, b, c) :
        w \in Sides, h \in Sides, a \in 0..1, b \in 0..1, c \in 0..(Len(Palette) - 1)}
    \cup {Ramp(w, h, v) : w \in Sides, h \in Sides, v \in RampSteps}

InitImage ==
    /\ input \in Images
    /\ output = NoImage
    /\ pass = 0
    /\ text = <<>> /\ pc = "idle" /\ result = NoResult /\ error = Unset
    /\ HookIdle /\ CameraIdle

\* one call of preprocessImage on the raster
Preprocess ==
    /\ output = NoImage
    /\ output' = preprocessImage(input)
    /\ pass' = pass + 1
    /\ UNCHANGED <<input, text, pc, result, error, hookVars, cameraVars>>

\* the normalized raster is submitted again
Resubmit ==
    /\ output # NoImage /\ pass = 1
    /\ input' = output
    /\ output' = NoImage
    /\ UNCHANGED <<pass, text, pc, result, error, hookVars, cameraVars>>

NextImage == Preprocess \/ Resubmit

SpecImage == InitImage /\ [][NextImage]_vars

----------------------------------------------------------------------------
(* Properties of the field extractors *)

Min(S) == CHOOSE x \in S : \A y \in S : x <= y

\* a is a contiguous part of b
IsSubstring(a, b) ==
    \E i \in 1..(Len(b) - Len(a) + 1) : SubSeq(b, i, i + Len(a) - 1) = a

\* a non-empty string of single characters
IsTextValue(v) == v # <<>> /\ \A k \in 1..Len(v) : Len(v[k]) = 1

\* C3: the fullText field of the result record equals the recognized text,
\* unmodified, for every text
FullTextVerbatim == pc = "done" => result.fullText = text

\* a non-empty text in which no field is found
FullTextWithoutFields ==
    /\ pc = "done" /\ text # <<>>
    /\ result = [fullText |-> text, date |-> Unset, total |-> Unset, merchant |-> Unset]

\* which fields are set, over the texts of at most one fragment per field
FieldCombinations ==
    {LET b == billData(Flatten(q)) IN {f \in Fields : b[f] # Unset} :
        q \in [1..Cardinality(Fields) -> MixedFragments \cup {<<>>}]}

\* C4: the extraction never throws, every field is a value or unset, and
\* every combination of set and unset fields occurs (no field being unset
\* blocks another)
ExtractionNeverFails ==
    /\ pc = "done" =>
          /\ error = Unset
          /\ \A f \in Fields : result[f] = Unset \/ IsTextValue(result[f])
    /\ FieldCombinations = SUBSET Fields

\* the date is unset and the two other fields are found
TotalAndMerchantWithoutDate ==
    /\ pc = "done" /\ error = Unset
    /\ result.date = Unset /\ result.total # Unset /\ result.merchant # Unset

\* digits, optionally followed by '.' and one or two digits
IsDecimalString(v) ==
    LET a == RunEnd(v, 1, IsDigit) IN
    /\ a > 1
    /\ \/ a = Len(v) + 1
       \/ /\ v[a] = "." /\ Len(v) - a \in 1..2
          /\ \A k \in (a + 1)..Len(v) : IsDigit(v[k])

\* C5: a returned total is a decimal string without a comma whose value is
\* strictly positive
TotalIsPositiveDecimal ==
    (pc = "done" /\ result.total # Unset) =>
        /\ IsDecimalString(result.total)
        /\ "," \notin Range(result.total)
        /\ ParseAmount(result.total) > 0

\* an amount written with a comma is returned with a period
CommaAmountReturned ==
    /\ pc = "done" /\ result.total = Chars("12.50")
    /\ IsSubstring(Chars("12,50"), text)
    /\ ~IsSubstring(Chars("12.50"), text)

\* the labeled patterns whose leftmost match has a strictly positive value
PositiveLabeled(s) ==
    {k \in 1..NumLabeledPatterns :
        /\ LabeledMatch(s, k) # Unset
        /\ ParseAmount(ReplaceComma(LabeledMatch(s, k))) > 0}

\* C6: when a labeled pattern yields a positive value, the value of the
\* first such pattern in the order (a), (b), (c) is returned, whatever
\* currency amounts stand elsewhere
LabeledTotalWins ==
    pc = "done" =>
        LET s == cleanText(text) IN
        PositiveLabeled(s) # {} =>
            result.total = ReplaceComma(LabeledMatch(s, Min(PositiveLabeled(s))))

\* a labeled total is returned although a larger currency amount is present
LabeledBeatsLargerAmount ==
    /\ pc = "done" /\ result.total # Unset
    /\ LET s == cleanText(text) IN
       /\ PositiveLabeled(s) # {}
       /\ \E c \in Range(CurrencyAmounts(s)) :
             c.amount > ParseAmount(result.total) /\ IsReasonable(c)

\* total is the largest value of the candidates with 0 < amount < 100000,
\* unset when there is none
IsLargestReasonable(total, candidates) ==
    LET reasonable == {c \in candidates : c.amount > 0 /\ c.amount < MaxReasonableAmount} IN
    IF reasonable = {} THEN total = Unset
    ELSE /\ \E c \in reasonable : c.value = total
         /\ \A c \in reasonable : c.amount <= ParseAmount(total)

\* every number that follows a currency symbol, with or without a fraction
DollarNumbers(s) ==
    {[value |-> ReplaceComma(SubSeq(s, g[1], g[2])),
      amount |-> ParseAmount(ReplaceComma(SubSeq(s, g[1], g[2])))] :
        g \in {NumberGroup(s, RunEnd(s, i + 1, IsSpace), FALSE) :
                 i \in {j \in 1..Len(s) : s[j] = "$"}} \ {NoGroup}}

\* the currency amounts the fallback pattern collects: a currency symbol and
\* a number with a fraction of one or two digits
FractionAmounts(s) ==
    {[value |-> c.value, amount |-> c.amount] : c \in Range(CurrencyAmounts(s))}

\* C7 as stated: without a labeled total, the result is the largest of all
\* currency-symbol-prefixed numbers v with 0 < v < 100000
FallbackLargestOfAllNumbers ==
    pc = "done" =>
        LET s == cleanText(text) IN
        LabeledTotal(s, 1) = Unset => IsLargestReasonable(result.total, DollarNumbers(s))

\* C7 amended: without a labeled total, the result is the largest of the
\* currency-symbol-prefixed numbers written with a fraction of one or two
\* digits whose value v satisfies 0 < v < 100000, and unset when there is none
FallbackLargestOfFractionAmounts ==
    pc = "done" =>
        LET s == cleanText(text) IN
        LabeledTotal(s, 1) = Unset => IsLargestReasonable(result.total, FractionAmounts(s))

\* an amount of 100000 or more stands beside the smaller amount returned
LargeAmountExcluded ==
    /\ pc = "done" /\ result.total = Chars("42.00")
    /\ LET s == cleanText(text) IN
       /\ LabeledTotal(s, 1) = Unset
       /\ \E c \in FractionAmounts(s) : c.amount >= MaxReasonableAmount

HasMatch(s, M(_, _)) == \E i \in 1..Len(s) : M(s, i) # 0

LeftmostIndex(s, M(_, _)) == Min({i \in 1..Len(s) : M(s, i) # 0})

LeftmostMatch(s, M(_, _)) ==
    LET i == LeftmostIndex(s, M) IN SubSeq(s, i, M(s, i) - 1)

\* the accepted fragment of the keyword family, or Unset
KeywordFragment(s) ==
    LET m == KeywordDateMatch(s) IN
    IF m # <<>> /\ LooksLikeDate(Trim(m[2])) THEN Trim(m[2]) ELSE Unset

\* C8: the date is the leftmost match of the first family, in the order
\* numeric, month-name, ISO, keyword, that matches anywhere in the text
FirstPatternWins ==
    pc = "done" =>
        LET s == cleanText(text) IN
        IF HasMatch(s, NumericDateAt) THEN result.date = LeftmostMatch(s, NumericDateAt)
        ELSE IF HasMatch(s, MonthDateAt) THEN result.date = LeftmostMatch(s, MonthDateAt)
        ELSE IF HasMatch(s, IsoDateAt) THEN result.date = LeftmostMatch(s, IsoDateAt)
        ELSE result.date = KeywordFragment(s)

\* a numeric date is returned although a date of a later family (ISO and
\* month-name, the latter longer) stands before it
EarlierFamilyBeatsEarlierPosition ==
    /\ pc = "done"
    /\ LET s == cleanText(text) IN
       /\ HasMatch(s, NumericDateAt) /\ HasMatch(s, IsoDateAt) /\ HasMatch(s, MonthDateAt)
       /\ LeftmostIndex(s, IsoDateAt) < LeftmostIndex(s, NumericDateAt)
       /\ LeftmostIndex(s, MonthDateAt) < LeftmostIndex(s, NumericDateAt)
       /\ Len(LeftmostMatch(s, MonthDateAt)) > Len(LeftmostMatch(s, NumericDateAt))
       /\ result.date = LeftmostMatch(s, NumericDateAt)

\* C9 as stated: a returned date is a literal substring of the input text
DateIsSubstringOfInput ==
    (pc = "done" /\ result.date # Unset) => IsSubstring(result.date, text)

\* C9 amended: a returned date is a literal substring of the input text
\* after its whitespace is collapsed (every run of whitespace replaced by one
\* space, the ends trimmed), and of the input text itself when the input
\* holds no newline and no run of several whitespace characters
DateIsSubstringOfCleanText ==
    (pc = "done" /\ result.date # Unset) =>
        /\ IsSubstring(result.date, cleanText(text))
        /\ Trim(text) = cleanText(text) => IsSubstring(result.date, text)

\* the date stands in the input with a newline and a run of spaces between
\* its parts, and the value returned is not a substring of the input
DateAcrossWhitespaceRun ==
    /\ pc = "done" /\ result.date # Unset
    /\ IsSubstring(Chars("Jan  5th,\n2023"), text)
    /\ result.date = Chars("Jan 5th, 2023")
    /\ ~IsSubstring(result.date, text)

\* the trimmed name fragment a pattern captures in a line, when it is longer
\* than 2 characters
LineFragment(line, labels) ==
    LET m == LabeledName(line, labels) IN
    IF m # Unset /\ Len(m) > 2 THEN Trim(m) ELSE Unset

LinesWith(lines, labels) ==
    {k \in 1..Len(lines) : LineFragment(lines[k], labels) # Unset}

\* C10 as stated: the merchant is taken from the earliest line that carries
\* any of the labels followed by a name fragment longer than 2 characters
EarliestLabeledLineWins ==
    pc = "done" =>
        LET lines == MerchantLines(text)
            labeled == LinesWith(lines, MerchantLabels) \cup LinesWith(lines, MerchantPhrases)
        IN  labeled # {} =>
                \E p \in 1..Len(merchantPatterns) :
                    /\ LineFragment(lines[Min(labeled)], merchantPatterns[p]) # Unset
                    /\ result.merchant = LineFragment(lines[Min(labeled)], merchantPatterns[p])

\* C10 amended: the single-word labels (merchant, vendor, store, business,
\* retailer, seller, company) are tried on every line before the phrases
\* (invoice from, receipt from, sold by): the merchant is taken from the
\* earliest line with a single-word label followed by a name fragment longer
\* than 2 characters, and from the earliest line with a phrase only when no
\* line has such a single-word label
LabelOrderThenLineOrder ==
    pc = "done" =>
        LET lines == MerchantLines(text)
            words == LinesWith(lines, MerchantLabels)
            phrases == LinesWith(lines, MerchantPhrases)
        IN  IF words # {}
            THEN result.merchant = LineFragment(lines[Min(words)], MerchantLabels)
            ELSE phrases # {} =>
                    result.merchant = LineFragment(lines[Min(phrases)], MerchantPhrases)

\* a 'Sold by:' line stands before a 'Store:' line and the store is returned
LaterWordLabelBeatsPhrase ==
    /\ pc = "done"
    /\ LET lines == MerchantLines(text) IN
       /\ Len(lines) >= 2
       /\ lines[1] = Chars("Sold by: Riverside Cafe")
       /\ lines[2] = Chars("Store: Walmart")
       /\ result.merchant = Chars("Walmart")

\* C14: when no numeric, month-name or ISO date matches and a label is
\* followed, up to the end of its line or the first two consecutive spaces,
\* by a fragment with a digit and one of '/', '-', '.', the date returned is
\* that fragment, whatever stands on the later lines
KeywordDateEndsWithLine ==
    pc = "done" =>
        LET s == cleanText(text)
            m == KeywordDateMatch(text)
        IN  (/\ ~HasMatch(s, NumericDateAt) /\ ~HasMatch(s, MonthDateAt)
             /\ ~HasMatch(s, IsoDateAt)
             /\ m # <<>> /\ LooksLikeDate(Trim(m[2])))
            => result.date = Trim(m[2])

\* the line after the labeled date is returned as part of the date
LaterLineJoinsDate ==
    /\ pc = "done"
    /\ text = Chars("Date: 1.5\npaid at noon\n")
    /\ result.date = Chars("1.5 paid at noon")

\* the line after the labeled date holds ':' and '$', and no date is returned
LaterLinePreventsDate ==
    /\ pc = "done"
    /\ text = Chars("Date: 1.5\nTotal: $5\n")
    /\ result.date = Unset

----------------------------------------------------------------------------
(* Properties of the header scan of extractMerchant *)

NoLabel(lines) ==
    LinesWith(lines, MerchantLabels) \cup LinesWith(lines, MerchantPhrases) = {}

FirstLines(lines, n) == SubSeq(lines, 1, IF Len(lines) < n THEN Len(lines) ELSE n)

Discarded(line) ==
    \/ LooksLikeNumericDate(line) \/ LooksLikeAmount(line)
    \/ LooksLikeAddress(line) \/ LooksLikeContact(line)

\* the header lines left after the discards, as the spec lists them
Remaining(lines) ==
    {k \in 1..Len(FirstLines(lines, MaxHeaderLines)) : ~Discarded(lines[k])}

\* the header lines the code keeps: longer than 3 characters as well
Candidates(lines) == {k \in Remaining(lines) : Len(lines[k]) > 3}

\* an all-uppercase line of more than 7 and fewer than 30 characters without
\* a run of three digits: the only lines that score 7
IsStrongAllCaps(line) ==
    IsAllUpper(line) /\ Len(line) > 7 /\ Len(line) < 30 /\ ~HasDigitRun(line)

\* C11 as stated: when the candidates of the header scan hold an all-caps
\* line and lines that are not all-caps, the merchant is an all-caps line
AllCapsOutranksOthers ==
    pc = "done" =>
        LET lines == MerchantLines(text)
            c == Candidates(lines)
        IN  (/\ NoLabel(lines)
             /\ \E k \in c : IsAllUpper(lines[k])
             /\ \E k \in c : ~IsAllUpper(lines[k]))
            => IsAllUpper(result.merchant)

\* C11 amended: when the candidates of the header scan hold an all-caps line
\* of more than 7 and fewer than 30 characters without a run of three
\* digits, the merchant is an all-caps line, whatever the other candidates
StrongAllCapsOutranksOthers ==
    pc = "done" =>
        LET lines == MerchantLines(text)
            c == Candidates(lines)
        IN  (NoLabel(lines) /\ \E k \in c : IsStrongAllCaps(lines[k]))
            => IsAllUpper(result.merchant)

\* a title-case name stands before the all-caps name and the all-caps name
\* is returned
LaterAllCapsLineReturned ==
    /\ pc = "done"
    /\ LET lines == MerchantLines(text) IN
       /\ Len(lines) >= 2
       /\ lines[1] = Chars("Joe's Diner")
       /\ lines[2] = Chars("ACME HARDWARE")
       /\ result.merchant = Chars("ACME HARDWARE")

\* the earliest line of the largest score among the lines at the indices c,
\* and Unset when there is none
BestOf(lines, c) ==
    IF c = {} THEN Unset
    ELSE lines[CHOOSE k \in c :
                 /\ \A j \in c : Score(lines[j]) <= Score(lines[k])
                 /\ \A j \in c : j < k => Score(lines[j]) < Score(lines[k])]

\* C15 as stated: without a label, the merchant is the earliest line of the
\* largest score among the first 6 lines that are neither a date, an amount,
\* an address nor contact information, and unset when none remains
BestOfRemainingHeaderLines ==
    pc = "done" =>
        LET lines == MerchantLines(text)
        IN  NoLabel(lines) => result.merchant = BestOf(lines, Remaining(lines))

\* C15 amended: without a label, the merchant is the earliest line of the
\* largest score among the first 6 lines that are longer than 3 characters
\* and neither a date, an amount, an address nor contact information, and
\* unset when none remains
BestOfCandidateHeaderLines ==
    pc = "done" =>
        LET lines == MerchantLines(text)
        IN  NoLabel(lines) => result.merchant = BestOf(lines, Candidates(lines))

\* six header lines of equal score stand before a seventh line of a larger
\* score, and the first of the six is returned
SeventhLineNotConsidered ==
    /\ pc = "done"
    /\ LET lines == MerchantLines(text) IN
       /\ NoLabel(lines) /\ Len(lines) > MaxHeaderLines
       /\ Cardinality(Candidates(lines)) = MaxHeaderLines
       /\ \A k \in Candidates(lines) : Score(lines[k]) = Score(lines[1])
       /\ Score(lines[MaxHeaderLines + 1]) > Score(lines[1])
       /\ IsPotentialMerchant(lines[MaxHeaderLines + 1])
       /\ result.merchant = lines[1]

\* a line of three characters has the largest score of the header and a
\* longer line of a smaller score is returned
ThreeCharacterLineDropped ==
    /\ pc = "done"
    /\ LET lines == MerchantLines(text) IN
       /\ NoLabel(lines)
       /\ \E k \in Remaining(lines) :
             /\ Len(lines[k]) = 3
             /\ result.merchant # Unset
             /\ Score(lines[k]) > Score(result.merchant)

----------------------------------------------------------------------------
(* Properties of the image normalizer *)

IsBinaryPixel(p) == p[1] = p[2] /\ p[2] = p[3] /\ p[1] \in {0, MaxChannel}

\* C1: the raster produced has the width and height of the input, and every
\* pixel has equal R, G and B, each 0 or 255
SameSizeAndBinary ==
    output # NoImage =>
        /\ output.width = input.width /\ output.height = input.height
        /\ Len(output.data) = Len(input.data)
        /\ \A k \in 1..Len(output.data) : IsBinaryPixel(output.data[k])

\* a coloured raster large enough for the median pass, normalized to a mix
\* of black and white
ColourRasterBinarized ==
    /\ output # NoImage /\ pass = 1
    /\ input.width > MedianMinSide /\ input.height > MedianMinSide
    /\ \E k \in 1..Len(input.data) : input.data[k][1] # input.data[k][3]
    /\ \E k \in 1..Len(output.data) : output.data[k][1] = 0
    /\ \E k \in 1..Len(output.data) : output.data[k][1] = MaxChannel

\* C2: normalizing the output of the normalizer returns it unchanged, pixel
\* for pixel
NormalizeIdempotent == (pass = 2 /\ output # NoImage) => output = input

\* the second pass over a raster that mixes black and white pixels
MixedRasterRenormalized ==
    /\ pass = 2 /\ output # NoImage
    /\ \E k \in 1..Len(input.data) : input.data[k][1] = 0
    /\ \E k \in 1..Len(input.data) : input.data[k][1] = MaxChannel
    /\ output = input

\* the number of pixels of the gray raster at the levels of a set
CountIn(gray, levels) == Cardinality({k \in 1..Len(gray) : gray[k][1] \in levels})

\* the sum of the levels of a set, each weighted by its number of pixels
RECURSIVE LevelSum(_, _)
LevelSum(gray, levels) ==
    IF levels = {} THEN 0
    ELSE LET u == CHOOSE x \in levels : TRUE
         IN  u * CountIn(gray, {u}) + LevelSum(gray, levels \ {u})

\* the between-class variance at the threshold t as an exact fraction:
\* wB * wF * (sumB / wB - sumF / wF)^2 = (sumB * wF - sumF * wB)^2 / (wB * wF),
\* and 0 when one of the classes is empty
ExactVariance(gray, t) ==
    LET low == {gray[k][1] : k \in 1..Len(gray)} \cap (0..t)
        high == {gray[k][1] : k \in 1..Len(gray)} \ low
        wB == CountIn(gray, low)
        wF == CountIn(gray, high)
        cross == Abs(LevelSum(gray, low) * wF - LevelSum(gray, high) * wB)
    IN  IF wB = 0 \/ wF = 0 THEN [num |-> BigOf(0), den |-> 1]
        ELSE [num |-> BigStrip(BigMul(BigOf(cross), BigOf(cross))), den |-> wB * wF]

ExactGreater(v, m) ==
    BigGreater(BigStrip(BigMul(v.num, BigOf(m.den))), BigStrip(BigMul(m.num, BigOf(v.den))))

\* the smallest threshold of 0..255 at which the exact variance is largest.
\* An empty bin repeats the variance of the bin before it, so the smallest
\* maximiser is 0 or a level of the raster, and the largest variance is
\* reached at one of these.
SmallestMaximiser(gray) ==
    LET levels == {gray[k][1] : k \in 1..Len(gray)} \cup {0}
        var == [t \in levels |-> ExactVariance(gray, t)]
    IN  CHOOSE t \in levels :
            /\ \A u \in levels : ~ExactGreater(var[u], var[t])
            /\ \A u \in levels : u < t => ExactGreater(var[t], var[u])

\* C12: the raster produced is the grayscale raster cut at the smallest
\* threshold that maximizes the between-class variance: a pixel above the
\* threshold is 255, every other pixel is 0
CutAtSmallestMaximiser ==
    output # NoImage =>
        LET gray == ToGrayscale(input.data)
            t == SmallestMaximiser(gray)
        IN  \A k \in 1..Len(gray) :
                output.data[k][1] = (IF gray[k][1] > t THEN MaxChannel ELSE 0)

\* a raster on which two thresholds reach the largest variance exactly
TiedMaximisers ==
    /\ output # NoImage /\ pass = 1
    /\ LET gray == ToGrayscale(input.data)
           levels == {gray[k][1] : k \in 1..Len(gray)}
       IN  \E t \in levels, u \in levels :
              /\ t < u
              /\ ~ExactGreater(ExactVariance(gray, t), ExactVariance(gray, u))
              /\ ~ExactGreater(ExactVariance(gray, u), ExactVariance(gray, t))
              /\ \A x \in levels : ~ExactGreater(ExactVariance(gray, x), ExactVariance(gray, t))

\* C13: the median pass changes no pixel: the raster produced is the raster
\* of the threshold stage, whatever the width and the height
MedianPassChangesNothing ==
    output # NoImage =>
        LET gray == ToGrayscale(input.data)
        IN  output.data =
                ApplyThreshold(gray, OtsuThreshold(Histogram(gray), input.width * input.height))

\* the pass has run over a raster wider and higher than 10 in which an
\* interior pixel differs from the median of its neighbourhood
MedianPassOverIsolatedPixel ==
    /\ output # NoImage /\ pass = 1
    /\ output.width > MedianMinSide /\ output.height > MedianMinSide
    /\ \E x \in 1..(output.width - 2), y \in 1..(output.height - 2) :
          output.data[y * output.width + x + 1][1] #
              Median([n \in 1..9 |->
                  output.data[(y + ((n - 1) \div 3) - 1) * output.width
                              + (x + ((n - 1) % 3) - 1) + 1][1]])

----------------------------------------------------------------------------
(* Properties of CameraCapture, useOCR and OCRProcessor *)

AllEnded(s) == \A k \in 1..Len(tracks[s]) : tracks[s][k] = "ended"

\* C16: once CameraCapture is unmounted, every track of the stream it held
\* when it was unmounted is stopped
UnmountStopsActiveStream ==
    (~mounted /\ stream # NoStream) => AllEnded(stream)

\* the component was unmounted while its camera was running
UnmountedWhileCapturing ==
    /\ ~mounted /\ isCapturing /\ stream # NoStream
    /\ stream = Len(tracks) /\ Len(tracks[stream]) > 1

InFlight(c) == IsAwait(calls[c].pc)

\* C17: isProcessing is true whenever an invocation of processImage is in
\* flight
ProcessingWhileInFlight ==
    (\E c \in Calls : InFlight(c)) => isProcessing

\* one invocation has returned while another one is still in flight
OverlappingCallReturned ==
    \E c \in Calls, d \in Calls : calls[c].pc = "returned" /\ InFlight(d)

\* the step in which the invocation c leaves processImage by a failure of
\* one of its awaits
FailsIn(c) ==
    /\ InFlight(c) /\ calls[c].pc # "terminate"
    /\ calls'[c].pc = "returned"

\* C18: a failure of an await of processImage is caught: error is set to the
\* message of the failure, isProcessing to false, and the promise of
\* processImage is fulfilled; no step of an invocation before the end of its
\* last await changes result
FailureIsCaught ==
    [][\A c \in Calls :
          /\ (calls'[c] # calls[c] /\ calls[c].pc # "terminate") => result' = result
          /\ FailsIn(c) =>
                /\ error' \in {ErrorMessage(err) : err \in Failures}
                /\ isProcessing' = FALSE
                /\ calls'[c].toast = "complete"]_vars

\* an invocation has failed with its worker running and the result of
\* another invocation is kept
FailedBesideResult ==
    /\ result # NoResult /\ error # Unset /\ ~isProcessing
    /\ \E c \in Calls : calls[c].pc = "returned" /\ workers[c] = "running"

\* C19: once result is set it is never null again, and the tabs are never
\* rendered again
ResultNeverCleared ==
    [][result # NoResult => (result' # NoResult /\ ~TabsRendered')]_vars

\* 'Process another bill' was clicked, and an invocation made before the
\* result was set has failed after it
ResultKeptAfterLaterOperations ==
    /\ result # NoResult /\ imagePreview = NoPreview /\ error # Unset
    /\ \A c \in Calls : calls[c].pc = "returned"

\* C20: when an invocation of processImage has returned, the worker it
\* created is terminated
WorkerTerminatedAtReturn ==
    \A c \in Calls : calls[c].pc = "returned" => workers[c] # "running"

\* an invocation has returned by a failure of recognize and its worker runs
WorkerLeftRunning ==
    \E c \in Calls :
        /\ calls[c].pc = "returned" /\ workers[c] = "running" /\ error # Unset

----------------------------------------------------------------------------
(* Properties of the single-keyword pattern of extractTotal *)

\* the single-keyword pattern at index i with \b on both sides of the keyword
OwnWordKeywordTotalAt(s, i) ==
    LET e == MatchAlt(s, i, TotalKeywords) IN
    IF e = 0 \/ ~WordBoundary(s, i) \/ ~WordBoundary(s, e) THEN NoGroup
    ELSE KeywordTotalFrom(s, e, 1)

OwnWordKeywordTotalEnd(s, i) == OwnWordKeywordTotalAt(s, i)[3]

\* the number after the leftmost keyword that stands as a word of its own
OwnWordKeywordMatch(s) ==
    LET i == Search(s, 1, OwnWordKeywordTotalEnd)
        g == OwnWordKeywordTotalAt(s, i)
    IN  IF i = 0 THEN Unset ELSE SubSeq(s, g[1], g[2])

\* C21: without a match of the phrase pattern, the total is the number after
\* the leftmost keyword (total, amount, due, balance, sum, charge) that stands
\* as a word of its own, when that number is positive: a keyword inside a
\* longer word is not a label
KeywordIsLabelAsOwnWord ==
    pc = "done" =>
        LET s == cleanText(text)
            m == OwnWordKeywordMatch(s)
        IN  (/\ LabeledMatch(s, 1) = Unset
             /\ m # Unset /\ ParseAmount(ReplaceComma(m)) > 0)
            => result.total = ReplaceComma(m)

\* 'Subtotal 10.00' stands before 'Total 11.00', and the subtotal is returned
SubtotalReturnedAsTotal ==
    /\ pc = "done"
    /\ text = Chars("Subtotal $10.00 Total $11.00 ")
    /\ OwnWordKeywordMatch(cleanText(text)) = Chars("11.00")
    /\ result.total = Chars("10.00")

====
